---- MODULE Spec2Model ----
(***************************************************************************)
(* FileFinder (src/FileFinder.py): enumerate the files beneath the given   *)
(* roots, filter them by extension, probe their sizes on a thread pool,    *)
(* sort the qualifying ones by size, report them, optionally delete them.  *)
(*                                                                         *)
(* Text is modelled as a sequence of one-character strings, so that        *)
(* strip(), lower(), startswith() and os.path.splitext() are computed.     *)
(* An optional value (None or a value) is a record [some, val].            *)
(***************************************************************************)
EXTENDS Integers, Sequences, FiniteSets, TLC

\* ------------------------------------------------------------------ bounds

\* The file system holds the first NumFiles entries of AllFiles.
NumFiles == 4
\* Explicit worker counts range over -1 .. MaxWorkers (and None).
MaxWorkers == 2
\* Limits range over -1 .. MaxLimit (and None).
MaxLimit == 2
\* args.size_threshold (in MB) ranges over 0 .. MaxThresholdMB.
MaxThresholdMB == 1

\* ------------------------------------------------------------------ text

None == [some |-> FALSE, val |-> <<>>]
Some(v) == [some |-> TRUE, val |-> v]

Uppers == <<"A","B","C","D","E","F","G","H","I","J","K","L","M",
            "N","O","P","Q","R","S","T","U","V","W","X","Y","Z">>
Lowers == <<"a","b","c","d","e","f","g","h","i","j","k","l","m",
            "n","o","p","q","r","s","t","u","v","w","x","y","z">>

\* str.lower() on one character.
LowerChar(c) ==
    IF \E i \in DOMAIN Uppers : Uppers[i] = c
    THEN Lowers[CHOOSE i \in DOMAIN Uppers : Uppers[i] = c]
    ELSE c

\* str.lower()
Lower(s) == [i \in 1..Len(s) |-> LowerChar(s[i])]

IsSpace(c) == c = " "

RECURSIVE LStrip(_)
LStrip(s) == IF s # <<>> /\ IsSpace(Head(s)) THEN LStrip(Tail(s)) ELSE s

RECURSIVE RStrip(_)
RStrip(s) ==
    IF s # <<>> /\ IsSpace(s[Len(s)]) THEN RStrip(SubSeq(s, 1, Len(s) - 1)) ELSE s

\* str.strip()
Strip(s) == RStrip(LStrip(s))

\* str.startswith('.')
StartsWithDot(s) == s # <<>> /\ Head(s) = "."

\* x in list
InList(x, l) == \E i \in 1..Len(l) : l[i] = x

\* os.path.splitext(name)[1] for a name without directory separators: the
\* text from the last dot on, provided some character before that dot is
\* not a dot; otherwise the empty string.
SplitExt(name) ==
    LET dots == {i \in 1..Len(name) : name[i] = "."}
    IN  IF dots = {} THEN <<>>
        ELSE LET dotIndex == CHOOSE i \in dots : \A j \in dots : j <= i
             IN  IF \E k \in 1..(dotIndex - 1) : name[k] # "."
                 THEN SubSeq(name, dotIndex, Len(name))
                 ELSE <<>>

\* The loop of normalize_ext_list over exts[i..]: skip empty entries, strip
\* and lowercase, skip what is then empty, put a dot in front if missing.
RECURSIVE NormLoop(_)
NormLoop(exts) ==
    IF exts = <<>> THEN <<>>
    ELSE LET ext == Head(exts)
             e == Lower(Strip(ext))
         IN  IF ext = <<>> \/ e = <<>> THEN NormLoop(Tail(exts))
             ELSE IF StartsWithDot(e) THEN <<e>> \o NormLoop(Tail(exts))
             ELSE <<(<<".">> \o e)>> \o NormLoop(Tail(exts))

\* normalize_ext_list(exts): None for None or an empty list, and None again
\* when nothing is left after normalisation ("return norm or None").
normalize_ext_list(exts) ==
    IF ~exts.some \/ exts.val = <<>> THEN None
    ELSE LET norm == NormLoop(exts.val)
         IN  IF norm = <<>> THEN None ELSE Some(norm)

MB == 1024 * 1024

RoundHalfEven(n, d) ==
    LET q == n \div d
        r == n % d
    IN  IF 2 * r < d THEN q
        ELSE IF 2 * r > d THEN q + 1
        ELSE IF q % 2 = 0 THEN q ELSE q + 1

units == <<"B", "KB", "MB", "GB", "TB">>

\* format_size's loop at unit k with size = num / den (den a power of 1024,
\* so the float is exact): the result "{size:.2f} {unit}" is the pair of the
\* hundredths shown and the unit.
RECURSIVE FormatLoop(_, _, _)
FormatLoop(num, den, k) ==
    IF num < 1024 * den \/ k = Len(units)
    THEN <<RoundHalfEven(num * 100, den), units[k]>>
    ELSE FormatLoop(num, den * 1024, k + 1)

format_size(num_bytes) == FormatLoop(num_bytes, 1, 1)

\* ------------------------------------------------------------ file system

R1 == <<"r", "1">>
R2 == <<"r", "2">>
Gone == <<"g", "o", "n", "e">>

\* The directories that exist (os.path.isdir); Gone does not.
ExistingDirs == {R1, R2}

\* The files on disk: the root above the file, the sub-directory between
\* them ("" or "k/"), the name, the size in bytes, and whether os.walk
\* reaches the file: os.walk ignores the error of a directory it cannot list
\* (onerror is None), so the files of such a directory are never yielded.
AllFiles == <<
    [root |-> R1, sub |-> <<>>, name |-> <<"a", ".", "t", "x", "t">>,
     size |-> MB, walked |-> TRUE],
    [root |-> R2, sub |-> <<>>, name |-> <<"b", ",", "e-acute", ".", "T", "X", "T">>,
     size |-> 3 * MB, walked |-> TRUE],
    [root |-> R1, sub |-> <<>>, name |-> <<".", "r", "c">>,
     size |-> MB - 1, walked |-> TRUE],
    [root |-> R1, sub |-> <<"k", "/">>, name |-> <<"d", ".", "t", "x", "t">>,
     size |-> 3 * MB, walked |-> FALSE],
    [root |-> R2, sub |-> <<>>, name |-> <<"e", ".", "t", "a", "r", ".", "g", "z">>,
     size |-> 3 * MB, walked |-> TRUE] >>

Files == 1..NumFiles

\* os.path.join(root, name)
PathOf(f) == AllFiles[f].root \o <<"/">> \o AllFiles[f].sub \o AllFiles[f].name

FileAt(path) == CHOOSE f \in Files : PathOf(f) = path

AllPaths == {PathOf(f) : f \in Files}

\* Characters outside ASCII.
NonAscii == {"e-acute"}

\* -------------------------------------------------------------- arguments

DirChoices == { <<R1>>, <<R1, R2>>, <<R2, Gone, R1>>, <<R2, R2>>, <<Gone>> }

ExtChoices ==
    { None,
      Some(<<>>),
      Some(<< <<>> >>),
      Some(<< <<"t", "x", "t">> >>),
      Some(<< <<" ", ".", "T", "X", "T", " ">>, <<" ">> >>),
      Some(<< <<".", "r", "c">> >>) }

WorkerChoices == {None} \cup {Some(w) : w \in (-1)..MaxWorkers}

LimitChoices == {None} \cup {Some(n) : n \in (-1)..MaxLimit}

ThresholdChoices == 0..MaxThresholdMB

FormatChoices ==
    { <<"t", "a", "b", "l", "e">>, <<"j", "s", "o", "n">>, <<"c", "s", "v">>,
      <<"J", "S", "O", "N">> }

OutputChoices == {None, Some(<<"o", "u", "t", "/", "r">>)}

Table == <<"t", "a", "b", "l", "e">>

\* The parameters main hands to the core, after lines 252-322.
ArgsOf(D, I, E, T, W, O, L, F, Del, Yes) ==
    [directories : D, include : I, exclude : E, size_threshold : T, workers : W,
     output : O, limit : L, format : F, delete : Del, yes : Yes]

\* Runs that vary the extension filters.
ArgsFilter ==
    ArgsOf(DirChoices, ExtChoices, ExtChoices, {1}, {None}, {None}, {None},
           {Table}, {FALSE}, {FALSE})

\* Runs that vary the threshold, the worker count and the limit.
ArgsScan ==
    ArgsOf(DirChoices, {None}, {None}, ThresholdChoices, WorkerChoices, {None},
           LimitChoices, {Table}, {FALSE}, {FALSE})

\* Runs that vary the report: limit, format, output path.
ArgsReport ==
    ArgsOf({<<R1, R2>>, <<R1>>, <<Gone>>}, {None}, {None}, ThresholdChoices, {Some(1)},
           OutputChoices, LimitChoices, FormatChoices, {TRUE}, {TRUE})

\* Runs that vary the deletion flags.
ArgsDelete ==
    ArgsOf({<<R1, R2>>, <<R2, R2>>}, {None}, {None}, {0}, {Some(1)},
           {None}, {None, Some(0), Some(1)}, {Table}, BOOLEAN, BOOLEAN)

ArgsChoices == ArgsFilter \cup ArgsScan \cup ArgsReport \cup ArgsDelete

\* ------------------------------------------------------------------ state

VARIABLES
    args,         \* the parsed arguments
    pc,           \* main's position
    removed,      \* the paths os.remove has removed
    file_paths,   \* find_large_files: the candidate list
    futures,      \* the pool's work items, one per candidate: the state, the
                  \* result, and whether os.path.getsize returned (ok)
    probes,       \* how often process_file ran for each candidate
    result_idx,   \* how many results the loop of lines 96-104 has consumed
    large_files,  \* the qualifying (path, size) pairs
    used_files,   \* what display_large_files returned
    stdout,       \* the rendering printed
    outfile,      \* the rendering written to the output file
    parent_made,  \* whether ensure_parent_dir created the parent directory
    save,         \* how persisting the report went
    log,          \* the kinds of messages logged
    confirm,      \* the answer typed at "Proceed? (y/N)"
    attempts,     \* how often os.remove ran for each entry of used_files
    outcomes,     \* the outcome of each os.remove so far
    deleted,      \* main's counter of successful deletions
    failed,       \* main's counter of failed deletions
    error         \* the exception main's handler caught

vars == <<args, pc, removed, file_paths, futures, probes, result_idx, large_files,
          used_files, stdout, outfile, parent_made, save, log, confirm, attempts,
          outcomes, deleted, failed, error>>

NoRender == [fmt |-> "none", heading |-> FALSE, rows |-> <<>>]
NotAsked == <<"-">>

Init ==
    /\ args \in ArgsChoices
    /\ pc = "find"
    /\ removed = {}
    /\ file_paths = <<>>
    /\ futures = <<>>
    /\ probes = <<>>
    /\ result_idx = 0
    /\ large_files = <<>>
    /\ used_files = <<>>
    /\ stdout = NoRender
    /\ outfile = NoRender
    /\ parent_made = FALSE
    /\ save = "none"
    /\ log = {}
    /\ confirm = NotAsked
    /\ attempts = <<>>
    /\ outcomes = <<>>
    /\ deleted = 0
    /\ failed = 0
    /\ error = "none"

\* size_threshold = args.size_threshold * 1024 * 1024
size_threshold == args.size_threshold * MB

\* ------------------------------------------------------------ enumeration

\* Lines 83-87 without the .lower() of line 83.
PassesFilter_Mutant(name, inc, exc) ==
    LET ext == SplitExt(name)
    IN  /\ ~(inc.some /\ ~InList(ext, inc.val))
        /\ ~(exc.some /\ InList(ext, exc.val))

\* Lines 84-87: the file named name is kept unless an include list is set
\* and lacks its extension, or an exclude list is set and has it.
PassesFilter(name, inc, exc) ==
    LET ext == Lower(SplitExt(name))
    IN  /\ ~(inc.some /\ ~InList(ext, inc.val))
        /\ ~(exc.some /\ InList(ext, exc.val))

\* The permutations of the files: the order in which the directory listings
\* yield them is the file system's choice.
Orders == {o \in [Files -> Files] : \A f \in Files : \E i \in Files : o[i] = f}

\* What os.walk(directory) yields, filtered, in listing order o.
RECURSIVE WalkFrom(_, _, _, _, _)
WalkFrom(directory, o, i, inc, exc) ==
    IF i > NumFiles THEN <<>>
    ELSE LET f == AllFiles[o[i]]
         IN  (IF f.root = directory /\ f.walked /\ PassesFilter(f.name, inc, exc)
              THEN <<PathOf(o[i])>> ELSE <<>>)
             \o WalkFrom(directory, o, i + 1, inc, exc)

\* Lines 77-88 over directories[i..].
RECURSIVE Candidates(_, _, _, _)
Candidates(dirs, o, inc, exc) ==
    IF dirs = <<>> THEN <<>>
    ELSE (IF Head(dirs) \in ExistingDirs
          THEN WalkFrom(Head(dirs), o, 1, inc, exc) ELSE <<>>)
         \o Candidates(Tail(dirs), o, inc, exc)

Pending == [state |-> "PENDING", result |-> None, ok |-> FALSE]

\* find_large_files, lines 71-95: normalise the filters, walk the roots,
\* return [] for no candidate, else create the pool and submit one work
\* item per candidate; ThreadPoolExecutor raises ValueError for
\* max_workers <= 0, which main's handler catches.
Enumerate ==
    /\ pc = "find"
    /\ \E o \in Orders :
         LET inc == normalize_ext_list(args.include)
             exc == normalize_ext_list(args.exclude)
             paths == Candidates(args.directories, o, inc, exc)
             n == Len(paths)
             warn == IF \E i \in 1..Len(args.directories) :
                            args.directories[i] \notin ExistingDirs
                     THEN {"skipping_path"} ELSE {}
         IN  /\ file_paths' = paths
             /\ probes' = [i \in 1..n |-> 0]
             /\ IF n = 0
                THEN /\ pc' = "display"
                     /\ futures' = <<>>
                     /\ log' = log \cup warn
                     /\ error' = error
                ELSE IF args.workers.some /\ args.workers.val <= 0
                THEN /\ pc' = "done"
                     /\ futures' = <<>>
                     /\ log' = log \cup warn \cup {"unexpected_error"}
                     /\ error' = "ValueError"
                ELSE /\ pc' = "probing"
                     /\ futures' = [i \in 1..n |-> Pending]
                     /\ log' = log \cup warn
                     /\ error' = error
    /\ UNCHANGED <<args, removed, result_idx, large_files, used_files, stdout, outfile,
                   parent_made, save, confirm, attempts, outcomes, deleted, failed>>

\* ------------------------------------------------------------------ probing

\* Line 62 with >= in place of >.
Qualifies_Mutant(file_size, threshold) == file_size >= threshold

\* Line 62: the size qualifies when it exceeds the threshold.
Qualifies(file_size, threshold) == file_size > threshold

\* process_file(file_path, size_threshold): os.path.getsize either returns
\* the size (ok) or raises OSError, which is logged; the result is the pair
\* (path, size) for a qualifying size and None otherwise.
process_file(file_path, threshold, ok) ==
    IF ok /\ Qualifies(AllFiles[FileAt(file_path)].size, threshold)
    THEN Some([path |-> file_path, size |-> AllFiles[FileAt(file_path)].size])
    ELSE None

\* The threads of the pool: max_workers, or the library's default (more
\* than the candidates of this model) when workers is None.
MaxThreads == IF args.workers.some THEN args.workers.val ELSE Len(file_paths)

Running == {i \in 1..Len(futures) : futures[i].state = "RUNNING"}

\* A pool whose queue hands a work item out again after it has finished.
WorkerTake_Mutant(i) ==
    /\ pc = "probing"
    /\ futures[i].state \in {"PENDING", "FINISHED"}
    /\ Cardinality(Running) < MaxThreads
    /\ futures' = [futures EXCEPT ![i].state = "RUNNING"]
    /\ UNCHANGED <<args, pc, removed, file_paths, probes, result_idx, large_files,
                   used_files, stdout, outfile, parent_made, save, log, confirm,
                   attempts, outcomes, deleted, failed, error>>

\* A pool thread takes the next work item off the queue (FIFO).
WorkerTake(i) ==
    /\ pc = "probing"
    /\ futures[i].state = "PENDING"
    /\ \A j \in 1..(i - 1) : futures[j].state # "PENDING"
    /\ Cardinality(Running) < MaxThreads
    /\ futures' = [futures EXCEPT ![i].state = "RUNNING"]
    /\ UNCHANGED <<args, pc, removed, file_paths, probes, result_idx, large_files,
                   used_files, stdout, outfile, parent_made, save, log, confirm,
                   attempts, outcomes, deleted, failed, error>>

\* The thread runs the work item: process_file on candidate i (line 97).
WorkerRun(i) ==
    /\ pc = "probing"
    /\ futures[i].state = "RUNNING"
    /\ \E ok \in BOOLEAN :
         /\ futures' = [futures EXCEPT
                          ![i] = [state |-> "FINISHED",
                                  result |-> process_file(file_paths[i],
                                                          size_threshold, ok),
                                  ok |-> ok]]
         /\ log' = IF ok THEN log ELSE log \cup {"error_accessing_file"}
    /\ probes' = [probes EXCEPT ![i] = @ + 1]
    /\ UNCHANGED <<args, pc, removed, file_paths, result_idx, large_files,
                   used_files, stdout, outfile, parent_made, save, confirm,
                   attempts, outcomes, deleted, failed, error>>

\* Lines 96-104: the loop over executor.map's results, in submission order,
\* waiting for each; a result that is not None is appended.
Collect ==
    /\ pc = "probing"
    /\ result_idx < Len(file_paths)
    /\ futures[result_idx + 1].state = "FINISHED"
    /\ result_idx' = result_idx + 1
    /\ large_files' = IF futures[result_idx + 1].result.some
                      THEN Append(large_files, futures[result_idx + 1].result.val)
                      ELSE large_files
    /\ UNCHANGED <<args, pc, removed, file_paths, futures, probes, used_files,
                   stdout, outfile, parent_made, save, log, confirm, attempts,
                   outcomes, deleted, failed, error>>

\* list.sort(key=size, reverse=True) is stable: x goes after the entries at
\* least as large as it.
RECURSIVE InsertDesc(_, _)
InsertDesc(l, x) ==
    IF l = <<>> THEN <<x>>
    ELSE IF Head(l).size >= x.size THEN <<Head(l)>> \o InsertDesc(Tail(l), x)
    ELSE <<x>> \o l

RECURSIVE SortFrom(_, _)
SortFrom(acc, l) ==
    IF l = <<>> THEN acc ELSE SortFrom(InsertDesc(acc, Head(l)), Tail(l))

\* Line 106 left out.
SortBySizeDesc_Mutant(l) == l

\* Line 106.
SortBySizeDesc(l) == SortFrom(<<>>, l)

\* Lines 104-107: the loop is over, the pool is shut down (every work item
\* has finished), the list is sorted and returned.
SortReturn ==
    /\ pc = "probing"
    /\ result_idx = Len(file_paths)
    /\ large_files' = SortBySizeDesc(large_files)
    /\ pc' = "display"
    /\ UNCHANGED <<args, removed, file_paths, futures, probes, result_idx,
                   used_files, stdout, outfile, parent_made, save, log, confirm,
                   attempts, outcomes, deleted, failed, error>>

\* ---------------------------------------------------------------- reporting

Min(a, b) == IF a < b THEN a ELSE b
Max(a, b) == IF a > b THEN a ELSE b

\* l[:n]
Slice(l, n) ==
    IF n >= 0 THEN SubSeq(l, 1, Min(n, Len(l)))
    ELSE SubSeq(l, 1, Max(Len(l) + n, 0))

\* Line 119: large_files[:limit] if limit else list(large_files); a limit of
\* None or 0 is falsy.
LimitedList(l, limit) ==
    IF limit.some /\ limit.val # 0 THEN Slice(l, limit.val) ELSE l

\* A string as json.dumps / json.dump writes it: with ensure_ascii a
\* character outside ASCII becomes its \uXXXX escape.
RECURSIVE JsonStr(_, _)
JsonStr(s, ensure_ascii) ==
    IF s = <<>> THEN <<>>
    ELSE (IF ensure_ascii /\ Head(s) \in NonAscii
          THEN <<"\\", "u", "0", "0", "e", "9">> ELSE <<Head(s)>>)
         \o JsonStr(Tail(s), ensure_ascii)

RECURSIVE DoubleQuotes(_)
DoubleQuotes(s) ==
    IF s = <<>> THEN <<>>
    ELSE (IF Head(s) = "\"" THEN <<"\"", "\"">> ELSE <<Head(s)>>)
         \o DoubleQuotes(Tail(s))

\* A field of a CSV row: csv.writer quotes a field that holds the delimiter
\* or a quote; the f-string of line 131 writes the text as it is.
CsvField(s, quoting) ==
    IF quoting /\ \E i \in 1..Len(s) : s[i] \in {",", "\""}
    THEN <<"\"">> \o DoubleQuotes(s) \o <<"\"">>
    ELSE s

JsonRows(used, ensure_ascii) ==
    [i \in 1..Len(used) |->
        <<JsonStr(used[i].path, ensure_ascii), used[i].size, format_size(used[i].size)>>]

CsvRows(used, quoting) ==
    [i \in 1..Len(used) |->
        <<CsvField(used[i].path, quoting), used[i].size, format_size(used[i].size)>>]

TableRows(used) ==
    [i \in 1..Len(used) |-> <<used[i].path, format_size(used[i].size)>>]

Json == <<"j", "s", "o", "n">>
Csv == <<"c", "s", "v">>

\* Lines 121-135: what is printed. The selector is compared as it is.
StdoutRender(output_format, used) ==
    IF output_format = Json
    THEN [fmt |-> "json", heading |-> FALSE, rows |-> JsonRows(used, TRUE)]
    ELSE IF output_format = Csv
    THEN [fmt |-> "csv", heading |-> FALSE, rows |-> CsvRows(used, FALSE)]
    ELSE [fmt |-> "table", heading |-> TRUE, rows |-> TableRows(used)]

\* Lines 139-167: what is written to the file. The selector is lowercased
\* first; json.dump runs with ensure_ascii=False, the rows go through
\* csv.writer, the table has no "Large files found:" heading.
FileRender(output_format, used) ==
    LET fmt == Lower(IF output_format = <<>> THEN Table ELSE output_format)
    IN  IF fmt = Json
        THEN [fmt |-> "json", heading |-> FALSE, rows |-> JsonRows(used, FALSE)]
        ELSE IF fmt = Csv
        THEN [fmt |-> "csv", heading |-> FALSE, rows |-> CsvRows(used, TRUE)]
        ELSE [fmt |-> "table", heading |-> FALSE, rows |-> TableRows(used)]

\* Lines 115-117 placed after the write: an empty report is still saved.
DisplayEmpty_Mutant ==
    /\ pc = "display"
    /\ large_files = <<>>
    /\ log' = log \cup {"no_files_found"}
    /\ used_files' = <<>>
    /\ pc' = "decide"
    /\ IF args.output.some
       THEN /\ outfile' = FileRender(args.format, <<>>)
            /\ save' = "saved"
       ELSE UNCHANGED <<outfile, save>>
    /\ UNCHANGED <<args, removed, file_paths, futures, probes, result_idx,
                   large_files, stdout, parent_made, confirm,
                   attempts, outcomes, deleted, failed, error>>

\* Lines 115-117: nothing to show; the notice is logged and [] returned.
DisplayEmpty ==
    /\ pc = "display"
    /\ large_files = <<>>
    /\ log' = log \cup {"no_files_found"}
    /\ used_files' = <<>>
    /\ pc' = "decide"
    /\ UNCHANGED <<args, removed, file_paths, futures, probes, result_idx,
                   large_files, stdout, outfile, parent_made, save, confirm,
                   attempts, outcomes, deleted, failed, error>>

\* Lines 119-174: limit, print, persist when an output path is given, log
\* the summary, return the limited list. ensure_parent_dir (line 138) runs
\* before the try of line 140, so an OSError of os.makedirs leaves the
\* function and reaches main's handler; an OSError of the write is logged.
\* made: the parent directory was missing and has been created.
DisplayRender ==
    /\ pc = "display"
    /\ large_files # <<>>
    /\ LET used == LimitedList(large_files, args.limit)
       IN  /\ stdout' = StdoutRender(args.format, used)
           /\ IF ~args.output.some \/ args.output.val = <<>>
              THEN /\ save' = "none"
                   /\ log' = log \cup {"summary"}
                   /\ used_files' = used
                   /\ pc' = "decide"
                   /\ UNCHANGED <<outfile, parent_made, error>>
              ELSE \E outcome \in {"saved", "write_failed", "makedirs_failed"},
                      made \in BOOLEAN :
                     /\ outcome = "makedirs_failed" => ~made
                     /\ save' = outcome
                     /\ parent_made' = made
                     /\ IF outcome = "makedirs_failed"
                        THEN /\ error' = "OSError"
                             /\ log' = log \cup {"unexpected_error"}
                             /\ pc' = "done"
                             /\ UNCHANGED <<outfile, used_files>>
                        ELSE /\ outfile' = IF outcome = "saved"
                                           THEN FileRender(args.format, used)
                                           ELSE outfile
                             /\ log' = log \cup {"summary"} \cup
                                       (IF outcome = "saved" THEN {"results_saved"}
                                        ELSE {"failed_to_save"})
                             /\ used_files' = used
                             /\ pc' = "decide"
                             /\ error' = error
    /\ UNCHANGED <<args, removed, file_paths, futures, probes, result_idx,
                   large_files, confirm, attempts, outcomes, deleted, failed>>

\* display_large_files(large_files, args.output, args.limit, args.format)
display_large_files == DisplayEmpty \/ DisplayRender

\* ----------------------------------------------------------------- deletion

\* What may be typed at the prompt.
Answers == { <<"y">>, <<" ", "Y", "E", "S", " ">>, <<"n">>, <<>> }

\* confirm in ("y", "yes"), after strip().lower()
Affirmative(answer) ==
    Lower(Strip(answer)) \in { <<"y">>, <<"y", "e", "s">> }

\* Lines 351-354 without the return: the answer is read and not obeyed.
DeleteDecision_Mutant ==
    /\ pc = "decide"
    /\ IF ~(args.delete /\ used_files # <<>>)
       THEN /\ pc' = "done"
            /\ UNCHANGED <<confirm, log, attempts>>
       ELSE /\ pc' = "deleting"
            /\ attempts' = [i \in 1..Len(used_files) |-> 0]
            /\ log' = log
            /\ IF ~args.yes
               THEN \E answer \in Answers : confirm' = answer
               ELSE confirm' = confirm
    /\ UNCHANGED <<args, removed, file_paths, futures, probes, result_idx,
                   large_files, used_files, stdout, outfile, parent_made, save,
                   outcomes, deleted, failed, error>>

\* Lines 345-355: delete only with the delete flag and a non-empty list;
\* without --yes ask, and return unless the answer is y or yes.
DeleteDecision ==
    /\ pc = "decide"
    /\ IF ~(args.delete /\ used_files # <<>>)
       THEN /\ pc' = "done"
            /\ UNCHANGED <<confirm, log, attempts>>
       ELSE IF ~args.yes
       THEN \E answer \in Answers :
              /\ confirm' = answer
              /\ IF Affirmative(answer)
                 THEN /\ pc' = "deleting"
                      /\ attempts' = [i \in 1..Len(used_files) |-> 0]
                      /\ log' = log
                 ELSE /\ pc' = "done"
                      /\ log' = log \cup {"deletion_cancelled"}
                      /\ attempts' = attempts
       ELSE /\ pc' = "deleting"
            /\ attempts' = [i \in 1..Len(used_files) |-> 0]
            /\ UNCHANGED <<confirm, log>>
    /\ UNCHANGED <<args, removed, file_paths, futures, probes, result_idx,
                   large_files, used_files, stdout, outfile, parent_made, save,
                   outcomes, deleted, failed, error>>

\* Lines 356-362 with the loop left at the first failure.
DeleteStep_Mutant ==
    /\ pc = "deleting"
    /\ Len(outcomes) < Len(used_files)
    /\ LET i == Len(outcomes) + 1
           file_path == used_files[i].path
       IN  /\ attempts' = [attempts EXCEPT ![i] = @ + 1]
           /\ \E r \in {"ok", "absent", "denied"} :
                /\ file_path \in removed => r = "absent"
                /\ outcomes' = Append(outcomes, r)
                /\ IF r = "ok"
                   THEN /\ removed' = removed \cup {file_path}
                        /\ deleted' = deleted + 1
                        /\ UNCHANGED <<failed, log, pc>>
                   ELSE /\ failed' = failed + 1
                        /\ log' = log \cup {"failed_to_delete", "deletion_complete"}
                        /\ pc' = "done"
                        /\ UNCHANGED <<removed, deleted>>
    /\ UNCHANGED <<args, file_paths, futures, probes, result_idx, large_files,
                   used_files, stdout, outfile, parent_made, save, confirm, error>>

\* Lines 356-362, one pass of the loop: os.remove on the next entry. It
\* raises for a path that is gone (removed by an earlier pass, or by someone
\* else) or that may not be removed; the failure is counted and logged.
DeleteStep ==
    /\ pc = "deleting"
    /\ Len(outcomes) < Len(used_files)
    /\ LET i == Len(outcomes) + 1
           file_path == used_files[i].path
       IN  /\ attempts' = [attempts EXCEPT ![i] = @ + 1]
           /\ \E r \in {"ok", "absent", "denied"} :
                /\ file_path \in removed => r = "absent"
                /\ outcomes' = Append(outcomes, r)
                /\ IF r = "ok"
                   THEN /\ removed' = removed \cup {file_path}
                        /\ deleted' = deleted + 1
                        /\ UNCHANGED <<failed, log>>
                   ELSE /\ failed' = failed + 1
                        /\ log' = log \cup {"failed_to_delete"}
                        /\ UNCHANGED <<removed, deleted>>
    /\ UNCHANGED <<args, pc, file_paths, futures, probes, result_idx, large_files,
                   used_files, stdout, outfile, parent_made, save, confirm, error>>

\* Line 363: the loop is over.
DeleteDone ==
    /\ pc = "deleting"
    /\ Len(outcomes) = Len(used_files)
    /\ log' = log \cup {"deletion_complete"}
    /\ pc' = "done"
    /\ UNCHANGED <<args, removed, file_paths, futures, probes, result_idx,
                   large_files, used_files, stdout, outfile, parent_made, save,
                   confirm, attempts, outcomes, deleted, failed, error>>

\* ------------------------------------------------------------ specification

Next ==
    \/ Enumerate
    \/ \E i \in 1..Len(futures) : WorkerTake(i)
    \/ \E i \in 1..Len(futures) : WorkerRun(i)
    \/ Collect
    \/ SortReturn
    \/ display_large_files
    \/ DeleteDecision
    \/ DeleteStep
    \/ DeleteDone

Spec == Init /\ [][Next]_vars

\* ------------------------------------------------------------------- claims

\* find_large_files has returned its list to main.
ScanReturned == pc \in {"display", "decide", "deleting", "done"} /\ error # "ValueError"

\* display_large_files has returned its list to main.
DisplayReturned == pc \in {"decide", "deleting", "done"} /\ error = "none"

SizeAt(path) == AllFiles[FileAt(path)].size

Candidate(i) == file_paths[i]

\* The candidates whose probe returned a size above the threshold.
GoodProbes ==
    {i \in 1..Len(futures) :
        /\ futures[i].state = "FINISHED"
        /\ futures[i].ok
        /\ SizeAt(Candidate(i)) > size_threshold}

SortedDesc(l) == \A i, j \in 1..Len(l) : i < j => l[i].size >= l[j].size

\* C1: a pair (path, size) is in the list of find_large_files only if the
\* probe of that candidate succeeded with size > T (strictly); once the scan
\* has returned, the list holds exactly the candidates whose probe succeeded
\* with size > T, so a failed probe neither aborts the scan nor drops another
\* candidate.
C1_OnlyProbedAboveThreshold ==
    /\ \A k \in 1..Len(large_files) :
         /\ large_files[k].size > size_threshold
         /\ \E i \in GoodProbes :
              /\ Candidate(i) = large_files[k].path
              /\ SizeAt(Candidate(i)) = large_files[k].size
    /\ ScanReturned =>
         /\ Len(large_files) = Cardinality(GoodProbes)
         /\ \A i \in GoodProbes : \E k \in 1..Len(large_files) :
              large_files[k].path = Candidate(i)
         /\ \A i \in 1..Len(futures) : futures[i].state = "FINISHED"

\* C1 witness: the scan returned a non-empty list although one probe raised
\* and another candidate's size was not above the threshold.
C1_Witness ==
    /\ ScanReturned
    /\ large_files # <<>>
    /\ \E i \in 1..Len(futures) : ~futures[i].ok
    /\ \E i \in 1..Len(futures) :
         futures[i].ok /\ SizeAt(Candidate(i)) = size_threshold

\* The files the walk of the existing roots yields.
WalkedFiles ==
    {f \in Files :
        /\ AllFiles[f].walked
        /\ AllFiles[f].root \in ExistingDirs
        /\ InList(AllFiles[f].root, args.directories)}

ExtOf(f) == Lower(SplitExt(AllFiles[f].name))

\* No list was given: None, or a list without entries.
Absent(exts) == ~exts.some \/ exts.val = <<>>

\* C2 as stated: after the enumeration a file is a candidate iff (include is
\* absent or its lowercase extension is in the normalized include list) and
\* (exclude is absent or its lowercase extension is not in the normalized
\* exclude list), absent meaning that no list was given.
C2_AbsentMeansNotGiven ==
    pc # "find" =>
        \A f \in WalkedFiles :
            InList(PathOf(f), file_paths) <=>
                /\ (Absent(args.include)
                    \/ InList(ExtOf(f), normalize_ext_list(args.include).val))
                /\ (Absent(args.exclude)
                    \/ ~InList(ExtOf(f), normalize_ext_list(args.exclude).val))

\* C2 amended: after the enumeration a file the walk yields is a candidate
\* iff (include is absent or holds only blank entries, so that it normalizes
\* to no extension, or the file's lowercase extension is in the normalized
\* include list) and (exclude is absent or holds only blank entries, or the
\* extension is not in the normalized exclude list).
C2_CandidateIffFilter ==
    pc # "find" =>
        \A f \in WalkedFiles :
            InList(PathOf(f), file_paths) <=>
                /\ (~args.include.some
                    \/ NormLoop(args.include.val) = <<>>
                    \/ InList(ExtOf(f), NormLoop(args.include.val)))
                /\ (~args.exclude.some
                    \/ NormLoop(args.exclude.val) = <<>>
                    \/ ~InList(ExtOf(f), NormLoop(args.exclude.val)))

\* C2 witness: an include list and an exclude list are both in force, one
\* walked file is a candidate and another is not.
C2_Witness ==
    /\ pc # "find"
    /\ normalize_ext_list(args.include).some
    /\ \E f, g \in WalkedFiles :
         /\ InList(PathOf(f), file_paths)
         /\ ~InList(PathOf(g), file_paths)
         /\ AllFiles[f].name # Lower(AllFiles[f].name)

WorkersAccepted == ~args.workers.some \/ args.workers.val >= 1

\* main has left find_large_files, by return or by exception.
ScanOver == pc \notin {"find", "probing"}

\* C3 as stated: for every worker count, once the scan is over every
\* candidate has been probed exactly once.
C3_EveryWorkerCount ==
    ScanOver => \A i \in 1..Len(file_paths) : probes[i] = 1

\* C3 amended: no candidate is ever probed twice, and for every worker count
\* the pool accepts (none given, or at least 1) the scan is over only when
\* every candidate has been probed exactly once, whatever the order in
\* which the work items ran and finished.
C3_ProbedExactlyOnce ==
    /\ Len(probes) = Len(file_paths)
    /\ \A i \in 1..Len(probes) : probes[i] <= 1
    /\ (ScanOver /\ WorkersAccepted) => \A i \in 1..Len(file_paths) : probes[i] = 1

\* C3 witness: a scan of three candidates on two workers is over and a
\* probe raised.
C3_Witness ==
    /\ ScanOver
    /\ args.workers = Some(2)
    /\ Len(file_paths) >= 3
    /\ \E i \in 1..Len(futures) : ~futures[i].ok
    /\ \A i \in 1..Len(file_paths) : probes[i] = 1

UsedPaths == {used_files[k].path : k \in 1..Len(used_files)}

\* C4: a file is removed only if it is an entry of the list
\* display_large_files returned and the delete flag is set and (auto-confirm
\* is set or the answer was affirmative); with the delete flag off, a
\* negative answer or an empty list nothing is removed.
C4_DeleteOnlyOnGo ==
    /\ \A p \in removed :
         /\ p \in UsedPaths
         /\ DisplayReturned
         /\ args.delete
         /\ args.yes \/ Affirmative(confirm)
    /\ (\/ ~args.delete
        \/ (confirm # NotAsked /\ ~Affirmative(confirm))
        \/ used_files = <<>>) => removed = {}

\* C4 witness: after an affirmative answer a file of the limited list has
\* been removed, and the list before the limit was longer.
C4_Witness ==
    /\ removed # {}
    /\ ~args.yes
    /\ Affirmative(confirm)
    /\ Len(used_files) < Len(large_files)

CountOf(r) == Cardinality({i \in 1..Len(outcomes) : outcomes[i] = r})

\* The delete loop was entered (a go decision) and main is done.
DeleteFinished == pc = "done" /\ attempts # <<>>

\* C5: after a go decision over K files every file has been attempted
\* exactly once, failures included; deleted counts the successes and failed
\* the failures, so deleted + failed = K, deleted = K and failed = 0 when all
\* succeed, deleted = K - 1 and failed = 1 when exactly one target is absent.
C5_DeleteTally ==
    /\ \A i \in 1..Len(attempts) : attempts[i] <= 1
    /\ DeleteFinished =>
         LET K == Len(used_files)
         IN  /\ Len(attempts) = K
             /\ \A i \in 1..K : attempts[i] = 1
             /\ Len(outcomes) = K
             /\ deleted = CountOf("ok")
             /\ failed = K - CountOf("ok")
             /\ deleted + failed = K
             /\ CountOf("ok") = K => (deleted = K /\ failed = 0)
             /\ (CountOf("absent") = 1 /\ CountOf("ok") = K - 1)
                   => (deleted = K - 1 /\ failed = 1)
             /\ "deletion_complete" \in log

\* C5 witness: of at least two files the first was absent, the rest were
\* still attempted and removed.
C5_Witness ==
    /\ DeleteFinished
    /\ Len(used_files) >= 2
    /\ outcomes[1] = "absent"
    /\ deleted = Len(used_files) - 1
    /\ failed = 1

\* C6 as stated: with a limit N >= 0 the list display_large_files returns
\* for a non-empty input is the first min(N, total) entries of the sorted
\* list, N = 0 included.
C6_LimitIsPrefix ==
    (DisplayReturned /\ large_files # <<>> /\ args.limit.some /\ args.limit.val >= 0)
        => /\ Len(used_files) = Min(args.limit.val, Len(large_files))
           /\ used_files = SubSeq(large_files, 1, Min(args.limit.val, Len(large_files)))

\* C7: the list find_large_files returns is sorted descending by size,
\* whatever the listing order and the order in which the probes finished,
\* and the limited list display_large_files returns is a prefix of it,
\* sorted the same way.
C7_SortedDescending ==
    /\ ScanReturned => SortedDesc(large_files)
    /\ SortedDesc(used_files)
    /\ DisplayReturned =>
         /\ Len(used_files) <= Len(large_files)
         /\ used_files = SubSeq(large_files, 1, Len(used_files))

\* C7 witness: the candidates were listed smaller before larger, and a
\* limited list of at least two entries was returned.
C7_Witness ==
    /\ DisplayReturned
    /\ Len(used_files) >= 2
    /\ Len(used_files) < Len(large_files)
    /\ \E i, j \in GoodProbes : i < j /\ SizeAt(Candidate(i)) < SizeAt(Candidate(j))

\* C8 as stated: with an output path and a non-empty result set, a failure
\* to persist the report, the creation of the parent directory included, is
\* logged and the later steps go on: the summary is logged, the limited list
\* is returned and main goes on to the deletion step.
C8_SaveFailureIsContained ==
    (save \in {"write_failed", "makedirs_failed"}) =>
        /\ "failed_to_save" \in log
        /\ "summary" \in log
        /\ error = "none"
        /\ used_files = LimitedList(large_files, args.limit)
        /\ pc \in {"decide", "deleting", "done"}

\* C9: for an empty result set display_large_files prints nothing and
\* writes nothing, creates neither the output file nor its parent directory
\* even with an output path, logs the notice and no summary, and returns the
\* empty list, so that nothing is deleted.
C9_EmptyResultWritesNothing ==
    (DisplayReturned /\ large_files = <<>>) =>
        /\ stdout = NoRender
        /\ outfile = NoRender
        /\ ~parent_made
        /\ save = "none"
        /\ "no_files_found" \in log
        /\ log \cap {"summary", "results_saved", "failed_to_save"} = {}
        /\ used_files = <<>>
        /\ removed = {}
        /\ attempts = <<>>
        /\ pc # "deleting"

\* C9 witness: candidates were probed, none qualified, an output path and
\* the delete flag were given, and main is done.
C9_Witness ==
    /\ pc = "done"
    /\ error = "none"
    /\ file_paths # <<>>
    /\ large_files = <<>>
    /\ \A i \in 1..Len(futures) : futures[i].ok
    /\ args.output.some
    /\ args.delete

\* C10 as stated: when the report has been saved, the file holds the
\* rendering that was printed: the same format, the same records in the same
\* order, the same text for each record.
C10_FileEqualsStdout ==
    save = "saved" =>
        /\ outfile.fmt = stdout.fmt
        /\ Len(outfile.rows) = Len(stdout.rows)
        /\ \A i \in 1..Len(outfile.rows) : outfile.rows[i] = stdout.rows[i]

====
